---- MODULE Spec2Model ----
(***************************************************************************)
(* A model of doc-images.py: the per-image routine process_image with its  *)
(* helpers get_mime_type and get_copyright, the archive scan process_tar,  *)
(* and main, which runs process_tar over a directory in a worker pool and  *)
(* writes the aggregated manifest.                                         *)
(*                                                                         *)
(* Text is modelled as a sequence of tokens.  A character is the token     *)
(* Ch(c); the JSON text of one record, which no operation of the program   *)
(* ever splits, is the single token Obj(doc).                              *)
(***************************************************************************)
EXTENDS Integers, Sequences, FiniteSets, TLC

(***************************************************************************)
(* Bounds of the model.                                                    *)
(***************************************************************************)
\* Longest archive (number of entries) scanned in SpecScan.
MaxEntries == 4
\* Number of times main is run over the same directory.
MaxRuns == 2

\* main's default num_proc.
NumProcDefault == 4

(***************************************************************************)
(* Python values.                                                          *)
(***************************************************************************)
\* None, and a value that is not None.
None == [some |-> FALSE]
Some(v) == [some |-> TRUE, v |-> v]

\* The outcome of a call: a returned value or a raised exception.
Return(v) == [exc |-> "", val |-> v]
Raise(e) == [exc |-> e]

\* A string is a sequence of one-character strings; Str spells the few used.
Str(s) ==
  CASE s = "" -> <<>>
    [] s = " " -> <<" ">>
    [] s = "A" -> <<"A">>
    [] s = " A " -> <<" ", "A", " ">>
    [] s = "AB" -> <<"A", "B">>
    [] s = " AB " -> <<" ", "A", "B", " ">>
    [] s = "[None]" -> <<"[", "N", "o", "n", "e", "]">>
    [] s = "A[None]" -> <<"A", "[", "N", "o", "n", "e", "]">>
    [] s = "[None" -> <<"[", "N", "o", "n", "e">>
    [] s = "CD" -> <<"C", "D">>
    [] s = "LDQ-A-RDQ" -> <<"LDQ", "A", "RDQ">>

\* str.strip(): leading and trailing white space removed.
RECURSIVE LStrip(_)
LStrip(s) == IF s # <<>> /\ Head(s) = " " THEN LStrip(Tail(s)) ELSE s
RECURSIVE RStrip(_)
RStrip(s) ==
  IF s # <<>> /\ s[Len(s)] = " " THEN RStrip(SubSeq(s, 1, Len(s) - 1)) ELSE s
Strip(s) == RStrip(LStrip(s))

\* sub in s: sub occurs in s as a contiguous run.
Contains(sub, s) ==
  \E i \in 0..(Len(s) - Len(sub)) : SubSeq(s, i + 1, i + Len(sub)) = sub

\* ftfy.fix_text, by its effect on the characters of the model: the curly
\* double quotes (written LDQ and RDQ) become the straight one (QUOT).
FixChar(c) == IF c \in {"LDQ", "RDQ"} THEN "QUOT" ELSE c
FixText(s) == [i \in DOMAIN s |-> FixChar(s[i])]

(***************************************************************************)
(* get_mime_type                                                           *)
(***************************************************************************)
\* The image formats of the model; None is an image with no detected format.
KnownFormats == {"JPEG", "PNG", "WEBP", "GIF"}
OtherFormats == {"BMP", "TIFF"}
Formats == {Some(f) : f \in KnownFormats \cup OtherFormats} \cup {None}

MimeTable ==
  [f \in {Some(k) : k \in KnownFormats} \cup {None} |->
     IF f = None THEN "!ERROR!"
     ELSE CASE f.v = "JPEG" -> "image/jpeg"
            [] f.v = "PNG" -> "image/png"
            [] f.v = "WEBP" -> "image/webp"
            [] f.v = "GIF" -> "image/gif"]

\* The argument "other/" + img.format of dict.get is evaluated before the
\* lookup, and str + None raises TypeError.
get_mime_type(img) ==
  IF img.format = None THEN Raise("TypeError")
  ELSE IF img.format \in DOMAIN MimeTable THEN Return(MimeTable[img.format])
  ELSE Return("other/" \o img.format.v)

(***************************************************************************)
(* get_copyright                                                           *)
(***************************************************************************)
TagCopyright == 33432
TagArtist == 315
CopyrightTags == <<TagCopyright, TagArtist>>

\* The test of line 100 on a stripped value.
Rejected(value) == Len(value) < 2 \/ Contains(Str("[None]"), value)

\* A variant that tries the artist tag before the copyright tag.
RECURSIVE first_accepted_artist_first(_, _)
first_accepted_artist_first(exif_data, tags) ==
  IF tags = <<>> THEN None
  ELSE LET tag == tags[Len(tags)]
           rest == SubSeq(tags, 1, Len(tags) - 1)
       IN IF tag \notin DOMAIN exif_data THEN first_accepted_artist_first(exif_data, rest)
          ELSE LET value == Strip(exif_data[tag])
               IN IF Rejected(value) THEN first_accepted_artist_first(exif_data, rest)
                  ELSE Some(FixText(value))

\* The loop of lines 96-102 over the tags left to try.
RECURSIVE first_accepted(_, _)
first_accepted(exif_data, tags) ==
  IF tags = <<>> THEN None
  ELSE LET tag == Head(tags)
       IN IF tag \notin DOMAIN exif_data THEN first_accepted(exif_data, Tail(tags))
          ELSE LET value == Strip(exif_data[tag])
               IN IF Rejected(value) THEN first_accepted(exif_data, Tail(tags))
                  ELSE Some(FixText(value))

\* img.exifread is the outcome of img.getexif(): "ok" or "SyntaxError";
\* img.exif maps the tags present to their values.
get_copyright(img) ==
  IF img.exifread = "SyntaxError" THEN None
  ELSE first_accepted(img.exif, CopyrightTags)

(***************************************************************************)
(* process_image                                                           *)
(***************************************************************************)
\* urlparse(url).netloc on the URLs of the model.
Urls == {"https://example.com/a.jpg", "http://images.test/b"}
Netloc(url) ==
  CASE url = "" -> ""
    [] url = "https://example.com/a.jpg" -> "example.com"
    [] url = "http://images.test/b" -> "images.test"

\* The iscc library: each identifier is a function of its input alone.
MetaId(title) == <<"meta", title>>
ContentId(img) == <<"content", img.pixels>>
DataId(data) == <<"data", data.bytes>>
InstanceId(data) == <<"instance", data.bytes>>
Checksum(data) == <<"checksum", data.bytes>>

\* The empty dict.
EmptyDoc == <<>>
DocLen(doc) == Cardinality(DOMAIN doc)

\* The truth value of a str, and of an int or None.
TruthyStr(s) == s # ""
TruthyInt(t) == t.some /\ t.v # 0

\* lines 43-67, for bytes that decode to the image data.img.  idcalls counts
\* the iscc calls made.
build_doc(data, title, url, timestamp, now) ==
    LET mime_type == get_mime_type(data.img)
        cmi == get_copyright(data.img)
        doc == [domain |-> Netloc(url),
                iscc |-> <<MetaId(title), ContentId(data.img), DataId(data),
                           InstanceId(data)>>,
                timestamp |-> IF TruthyInt(timestamp) THEN timestamp.v ELSE now,
                bytes |-> data.size,
                checksum |-> Checksum(data),
                mime_type |-> mime_type.val]
    IN IF mime_type.exc # "" THEN [exc |-> mime_type.exc, idcalls |-> 0]
       \* line 49: with no title the right-hand side is "", which does not
       \* unpack into three names.
       ELSE IF ~TruthyStr(title) THEN [exc |-> "ValueError", idcalls |-> 0]
       ELSE [exc |-> "",
             val |-> IF cmi # None THEN doc @@ [copyright |-> cmi.v] ELSE doc,
             idcalls |-> 4]

\* A variant whose except clause is missing: a decode error is raised.
process_image_raising(data, title, url, timestamp, now) ==
  IF data.decode # "ok" THEN [exc |-> data.decode, idcalls |-> 0]
  ELSE build_doc(data, title, url, timestamp, now)

\* data.decode is the outcome of PIL.Image.open, convert and resize on the
\* bytes (lines 39-47): "ok", "UnidentifiedImageError" or "OSError".
process_image(data, title, url, timestamp, now) ==
  IF data.decode # "ok" THEN [exc |-> "", val |-> EmptyDoc, idcalls |-> 0]
  ELSE build_doc(data, title, url, timestamp, now)

(***************************************************************************)
(* Text and files                                                          *)
(***************************************************************************)
Ch(c) == [ch |-> c]
Obj(doc) == [obj |-> doc]
IsObj(t) == DOMAIN t = {"obj"}
IsSpace(t) == t \in {Ch(" "), Ch("\n")}

\* json.dumps(doc): the text of one JSON object, which holds no line break.
JsonDumps(doc) == <<Obj(doc)>>

\* f.write(data) at position pos of a file holding buf (positions from 0):
\* the text is overwritten from pos on and grows as needed.
WriteAt(buf, pos, data) ==
  SubSeq(buf, 1, pos) \o data \o SubSeq(buf, pos + Len(data) + 1, Len(buf))

\* The concatenation of a sequence of texts.
RECURSIVE Concat(_)
Concat(ss) == IF ss = <<>> THEN <<>> ELSE Head(ss) \o Concat(Tail(ss))

\* The tokens of a text that are not white space.
RECURSIVE Solid(_)
Solid(s) ==
  IF s = <<>> THEN <<>>
  ELSE IF IsSpace(Head(s)) THEN Solid(Tail(s))
  ELSE <<Head(s)>> \o Solid(Tail(s))

\* The records a text holds, in order.
RECURSIVE Objects(_)
Objects(s) ==
  IF s = <<>> THEN <<>>
  ELSE IF IsObj(Head(s)) THEN <<Head(s).obj>> \o Objects(Tail(s))
  ELSE Objects(Tail(s))

\* A JSON parser accepts the text as an array of objects: "[", the objects
\* separated by single commas, "]", with white space between the tokens.
IsJsonArray(s) ==
  LET t == Solid(s)
      n == Len(t)
  IN /\ n >= 2
     /\ t[1] = Ch("[")
     /\ t[n] = Ch("]")
     /\ \/ n = 2
        \/ /\ n % 2 = 1
           /\ \A i \in 2..(n - 1) :
                IF i % 2 = 0 THEN IsObj(t[i]) ELSE t[i] = Ch(",")

\* The text is newline-delimited JSON: every line is one object.
IsJsonLines(s) ==
  /\ Len(s) % 2 = 0
  /\ \A i \in 1..Len(s) : IF i % 2 = 1 THEN IsObj(s[i]) ELSE s[i] = Ch("\n")

(***************************************************************************)
(* Archives                                                                *)
(***************************************************************************)
\* A name is the sequence of its dot-separated segments.
LowerSeg(seg) ==
  CASE seg = "A" -> "a"
    [] seg = "JPG" -> "jpg"
    [] OTHER -> seg
Lower(name) == [i \in DOMAIN name |-> LowerSeg(name[i])]

\* name.endswith("." + ext)
EndsWith(name, ext) == Len(name) >= 2 /\ name[Len(name)] = ext

\* A variant that splits off the last segment only.
PairingKey_one_split(name) ==
  IF Len(name) <= 1 THEN <<name[1]>> ELSE SubSeq(name, 1, Len(name) - 1)

\* name.rsplit(".", maxsplit=2)[0]
PairingKey(name) ==
  IF Len(name) <= 2 THEN <<name[1]>> ELSE SubSeq(name, 1, Len(name) - 2)

\* Image payloads: two that decode and one that does not.
Pixels(b) == <<"pixels", b>>
Image(b) == [format |-> Some("JPEG"), exifread |-> "ok", exif |-> <<>>, pixels |-> Pixels(b)]
GoodData(b, n) == [bytes |-> b, size |-> n, decode |-> "ok", img |-> Image(b)]
BadData(b, n) == [bytes |-> b, size |-> n, decode |-> "UnidentifiedImageError"]

\* Sidecars: JSON objects with or without the url and caption fields.
MetaFull == [url |-> "https://example.com/a.jpg", caption |-> "Sunset"]
MetaNoCaption == [url |-> "https://example.com/a.jpg"]
MetaNoUrl == [caption |-> "Sunset"]
MetaOther == [url |-> "http://images.test/b", caption |-> "Dawn"]

Member(name, mtime, data) == [name |-> name, mtime |-> mtime, data |-> data]

PayloadMembers ==
  { Member(<<"a", "jpg">>, 5, GoodData("img1", 200)),
    Member(<<"a", "jpg">>, 5, BadData("junk", 141)),
    Member(<<"A", "x", "JPG">>, 5, GoodData("img2", 300)),
    Member(<<"b", "jpg">>, 5, GoodData("img2", 300)) }
SidecarMembers ==
  { Member(<<"a", "json">>, 7, MetaFull),
    Member(<<"a", "json">>, 7, MetaNoCaption),
    Member(<<"a", "json">>, 7, MetaNoUrl),
    Member(<<"a", "json">>, 0, MetaFull),
    Member(<<"b", "json">>, 8, MetaOther) }
OtherMembers == { Member(<<"a", "txt">>, 5, [text |-> "readme"]) }
Members == PayloadMembers \cup SidecarMembers \cup OtherMembers

\* Every archive of at most n entries.
RECURSIVE SeqsUpTo(_, _)
SeqsUpTo(S, n) ==
  IF n = 0 THEN {<<>>}
  ELSE LET shorter == SeqsUpTo(S, n - 1)
       IN shorter \cup {Append(s, e) : s \in {t \in shorter : Len(t) = n - 1}, e \in S}

\* The archives of the directories main is run over in Spec.
TarOne == <<Member(<<"a", "jpg">>, 5, GoodData("img1", 200)), Member(<<"a", "json">>, 7, MetaFull)>>
TarNone == <<Member(<<"a", "jpg">>, 5, BadData("junk", 141)), Member(<<"a", "json">>, 7, MetaFull)>>
TarTwo == TarOne \o <<Member(<<"b", "jpg">>, 5, GoodData("img2", 300)), Member(<<"b", "json">>, 8, MetaOther)>>
TarUnpaired == <<Member(<<"a", "json">>, 7, MetaFull), Member(<<"a", "jpg">>, 5, GoodData("img1", 200))>>
TarThree ==
  <<Member(<<"a", "jpg">>, 5, GoodData("img1", 200)), Member(<<"a", "json">>, 7, MetaFull),
    Member(<<"a", "jpg">>, 5, BadData("junk", 141)), Member(<<"a", "json">>, 7, MetaFull),
    Member(<<"b", "jpg">>, 5, GoodData("img2", 300)), Member(<<"b", "json">>, 8, MetaOther)>>
Tars == {TarOne, TarNone, TarTwo, TarUnpaired, TarThree}

\* The archive files a directory may hold, in sorted order.
TarNames == <<"00000", "00001", "00002">>
TarFile(stem) == <<stem, ".tar">>
TarFiles == {TarFile(TarNames[i]) : i \in DOMAIN TarNames}

\* A variant that gives every archive the same output file.
DocPath_shared(filename) == <<"00000", "_doc.jsonl">>

\* filename.replace(".tar", "_doc.jsonl")
DocPath(filename) ==
  [i \in DOMAIN filename |-> IF filename[i] = ".tar" THEN "_doc.jsonl" ELSE filename[i]]

\* os.path.normpath(path) + ".json"
OutFile == <<"dir", ".json">>

\* The values int(time.time()) may take: later than every entry's mtime.
Clock == {100}

(***************************************************************************)
(* State                                                                   *)
(***************************************************************************)
VARIABLES
  tars,       \* the directory: archive file name -> its entries, in stored order
  disk,       \* the files written: path -> text (a path not in DOMAIN is no file)
  num_proc,   \* main's num_proc
  run,        \* the number of invocations of main so far
  mainpc,     \* "idle", "pool" (lines 182-190), "done", "failed"
  filenames,  \* main's sorted list of archives
  nextTask,   \* the index of the next task the pool hands to a worker
  task,       \* per task: the position and the locals of its process_tar call
  outqueue,   \* the results of finished tasks the coordinator has not taken yet
  results,    \* main's results, in completion order
  fin,        \* SpecImage: the arguments of the call
  fout        \* SpecImage: the function called and its outcome

vars == <<tars, disk, num_proc, run, mainpc, filenames, nextTask, task, outqueue,
          results, fin, fout>>
fnvars == <<fin, fout>>
dirvars == <<tars, num_proc>>

\* A function with one more (or one changed) argument, and with one less.
Put(f, k, v) == [x \in DOMAIN f \cup {k} |-> IF x = k THEN v ELSE f[x]]
Drop(f, k) == [x \in DOMAIN f \ {k} |-> f[x]]

\* os.path.isfile(path)
IsFile(path) == path \in DOMAIN disk

\* sorted(...) of a set of archive file names.
RECURSIVE SortedFrom(_, _)
SortedFrom(S, i) ==
  IF i > Len(TarNames) THEN <<>>
  ELSE (IF TarFile(TarNames[i]) \in S THEN <<TarFile(TarNames[i])>> ELSE <<>>)
       \o SortedFrom(S, i + 1)
Sorted(S) == SortedFrom(S, 1)

\* A task not yet handed to a worker.
PendingTask ==
  [pc |-> "pending", pos |-> 0, cache |-> <<>>, lines |-> <<>>, ncalls |-> 0,
   wrote |-> 0, exc |-> "", ret |-> None, at |-> ""]

\* The task positions at which a worker is inside process_tar.
RunningPcs == {"start", "scan", "write", "return"}
Running == {i \in DOMAIN task : task[i].pc \in RunningPcs}

\* No arguments drawn, and no function called yet.
NoArgs == [drawn |-> FALSE]
NoCall == [name |-> ""]

(***************************************************************************)
(* main, lines 176-182: list the directory and start the pool.             *)
(***************************************************************************)
Main ==
  /\ \/ mainpc = "idle"
     \/ mainpc \in {"done", "failed"} /\ run < MaxRuns
  /\ LET listing == DOMAIN tars \cup DOMAIN disk
         fs == Sorted({f \in listing : EndsWith(f, ".tar")})
     IN /\ run' = run + 1
        /\ filenames' = fs
        /\ nextTask' = 1
        /\ task' = [i \in DOMAIN fs |-> PendingTask]
        /\ outqueue' = <<>>
        /\ results' = <<>>
        \* assert len(filenames) > 0
        /\ mainpc' = IF Len(fs) > 0 THEN "pool" ELSE "failed"
  /\ UNCHANGED <<dirvars, disk, fnvars>>

(***************************************************************************)
(* The pool: a free worker takes the next task of imap_unordered.          *)
(***************************************************************************)
Dequeue ==
  /\ mainpc = "pool"
  /\ nextTask <= Len(filenames)
  /\ Cardinality(Running) < num_proc
  /\ task' = [task EXCEPT ![nextTask].pc = "start"]
  /\ nextTask' = nextTask + 1
  /\ UNCHANGED <<dirvars, disk, run, mainpc, filenames, outqueue, results, fnvars>>

(***************************************************************************)
(* process_tar                                                             *)
(***************************************************************************)
\* The put of a task's outcome on the pool's result queue.
Result(i, exc, val) == [idx |-> i, exc |-> exc, val |-> val]

\* A variant that goes on to scan an archive whose output file exists.
Skip_scanning(i) ==
  /\ mainpc = "pool"
  /\ task[i].pc = "start"
  /\ IsFile(DocPath(filenames[i]))
  /\ task' = [task EXCEPT ![i].pc = "scan", ![i].lines = <<>>, ![i].cache = <<>>]
  /\ UNCHANGED <<dirvars, disk, run, mainpc, filenames, nextTask, outqueue, results, fnvars>>

\* lines 127-128: the output file exists.
Skip(i) ==
  /\ mainpc = "pool"
  /\ task[i].pc = "start"
  /\ IsFile(DocPath(filenames[i]))
  /\ task' = [task EXCEPT ![i].pc = "done", ![i].ret = Some(<<>>)]
  /\ outqueue' = Append(outqueue, Result(i, "", <<>>))
  /\ UNCHANGED <<dirvars, disk, run, mainpc, filenames, nextTask, results, fnvars>>

\* A variant that creates the output file before the scan.
Open_creating(i) ==
  /\ mainpc = "pool"
  /\ task[i].pc = "start"
  /\ ~IsFile(DocPath(filenames[i]))
  /\ task' = [task EXCEPT ![i].pc = "scan", ![i].lines = <<>>, ![i].cache = <<>>]
  /\ disk' = Put(disk, DocPath(filenames[i]), <<>>)
  /\ UNCHANGED <<dirvars, run, mainpc, filenames, nextTask, outqueue, results, fnvars>>

\* lines 130-136: the locals are set up and the archive is opened.
Open(i) ==
  /\ mainpc = "pool"
  /\ task[i].pc = "start"
  /\ ~IsFile(DocPath(filenames[i]))
  /\ task' = [task EXCEPT ![i].pc = "scan", ![i].lines = <<>>, ![i].cache = <<>>]
  /\ UNCHANGED <<dirvars, disk, run, mainpc, filenames, nextTask, outqueue, results, fnvars>>

\* A variant that buffers nothing.
Buffered_dropping(cache, key, data) == cache

\* A variant whose buffer holds the last payload only.
Buffered_single(cache, key, data) == Put(<<>>, key, data)

\* line 146: cache[key] = file.read()
Buffered(cache, key, data) == Put(cache, key, data)

\* A variant that reads the field with a default: meta.get("url", "")
MetaUrl_default(meta) == Return(IF "url" \in DOMAIN meta THEN meta.url ELSE "")

\* line 157: meta["url"]
MetaUrl(meta) == IF "url" \in DOMAIN meta THEN Return(meta.url) ELSE Raise("KeyError")

\* line 156: meta.get('caption', '')
MetaCaption(meta) == IF "caption" \in DOMAIN meta THEN meta.caption ELSE ""

\* A variant that reads the payload and leaves it in the buffer.
Popped_keeping(cache, key) == cache

\* line 151: cache.pop(key)
Popped(cache, key) == Drop(cache, key)

\* A variant that puts the new line first.
Appended_front(lines, line) == <<line>> \o lines

\* line 162: lines.append(...)
Appended(lines, line) == Append(lines, line)

\* lines 141-162: one pass of the loop body over entry member, from the
\* locals t of the task; now is the clock's reading.  The outcome is the
\* locals after the pass and the exception that ended it, if any.
LoopBody(t, member, now) ==
  LET member_name == Lower(member.name)
      key == PairingKey(member_name)
      cache1 == IF EndsWith(member_name, "jpg")
                THEN Buffered(t.cache, key, member.data) ELSE t.cache
      t1 == [t EXCEPT !.pos = t.pos + 1, !.cache = cache1]
  IN IF ~EndsWith(member_name, "json") THEN [exc |-> "", t |-> t1]
     \* assert key in cache
     ELSE IF key \notin DOMAIN cache1 THEN [exc |-> "AssertionError", t |-> t1]
     ELSE
       LET data == cache1[key]
           t2 == [t1 EXCEPT !.cache = Popped(cache1, key)]
           meta == member.data
           title == MetaCaption(meta)
           url == MetaUrl(meta)
       IN IF url.exc # "" THEN [exc |-> url.exc, t |-> t2]
          ELSE
            LET r == process_image(data, title, url.val, Some(member.mtime), now)
                t3 == [t2 EXCEPT !.ncalls = t2.ncalls + 1]
            IN IF r.exc # "" THEN [exc |-> r.exc, t |-> t3]
               ELSE IF DocLen(r.val) > 0
                 THEN [exc |-> "",
                       t |-> [t3 EXCEPT !.lines = Appended(t3.lines, JsonDumps(r.val))]]
               ELSE [exc |-> "", t |-> t3]

\* One iteration of the loop of line 135; an exception ends the task and
\* goes to the coordinator as the task's outcome.
ScanEntry(i) ==
  /\ mainpc = "pool"
  /\ task[i].pc = "scan"
  /\ task[i].pos < Len(tars[filenames[i]])
  /\ \E now \in Clock :
       LET r == LoopBody(task[i], tars[filenames[i]][task[i].pos + 1], now)
       IN IF r.exc = ""
          THEN /\ task' = [task EXCEPT ![i] = r.t]
               /\ UNCHANGED outqueue
          ELSE /\ task' = [task EXCEPT ![i] = [r.t EXCEPT !.pc = "raised", !.exc = r.exc]]
               /\ outqueue' = Append(outqueue, Result(i, r.exc, <<>>))
  /\ UNCHANGED <<dirvars, disk, run, mainpc, filenames, nextTask, results, fnvars>>

\* The text of the output file: doc.writelines(l + "\n" for l in lines)
DocText(lines) == Concat([k \in DOMAIN lines |-> lines[k] \o <<Ch("\n")>>])

\* A variant that opens the output file during the scan.
OpenDoc_early(i) ==
  /\ mainpc = "pool"
  /\ task[i].pc = "scan"
  /\ disk' = Put(disk, DocPath(filenames[i]), <<>>)
  /\ task' = [task EXCEPT ![i].pc = "write"]
  /\ UNCHANGED <<dirvars, run, mainpc, filenames, nextTask, outqueue, results, fnvars>>

\* line 164, after the last entry: open(..., "w") leaves an empty file.
OpenDoc(i) ==
  /\ mainpc = "pool"
  /\ task[i].pc = "scan"
  /\ task[i].pos = Len(tars[filenames[i]])
  /\ disk' = Put(disk, DocPath(filenames[i]), <<>>)
  /\ task' = [task EXCEPT ![i].pc = "write"]
  /\ UNCHANGED <<dirvars, run, mainpc, filenames, nextTask, outqueue, results, fnvars>>

\* line 165 and the end of the with block: the lines are in the file.
WriteDoc(i) ==
  /\ mainpc = "pool"
  /\ task[i].pc = "write"
  /\ disk' = Put(disk, DocPath(filenames[i]), DocText(task[i].lines))
  /\ task' = [task EXCEPT ![i].pc = "return", ![i].wrote = task[i].wrote + 1]
  /\ UNCHANGED <<dirvars, run, mainpc, filenames, nextTask, outqueue, results, fnvars>>

\* line 167: the lines go to the coordinator and the locals are gone.
ReturnLines(i) ==
  /\ mainpc = "pool"
  /\ task[i].pc = "return"
  /\ task' = [task EXCEPT ![i].pc = "done", ![i].ret = Some(task[i].lines),
                          ![i].cache = <<>>]
  /\ outqueue' = Append(outqueue, Result(i, "", task[i].lines))
  /\ UNCHANGED <<dirvars, disk, run, mainpc, filenames, nextTask, results, fnvars>>

(***************************************************************************)
(* main, lines 183-199                                                     *)
(***************************************************************************)
\* list(...) takes the next finished task's lines.
Collect ==
  /\ mainpc = "pool"
  /\ outqueue # <<>>
  /\ Head(outqueue).exc = ""
  /\ results' = Append(results, Head(outqueue).val)
  /\ outqueue' = Tail(outqueue)
  /\ UNCHANGED <<dirvars, disk, run, mainpc, filenames, nextTask, task, fnvars>>

\* A variant that takes a failed task as one with no lines and goes on.
CollectError_ignoring ==
  /\ mainpc = "pool"
  /\ outqueue # <<>>
  /\ Head(outqueue).exc # ""
  /\ results' = Append(results, <<>>)
  /\ outqueue' = Tail(outqueue)
  /\ UNCHANGED <<dirvars, disk, run, mainpc, filenames, nextTask, task, fnvars>>

\* list(...) takes a task's exception: it is raised in main, and leaving the
\* with block terminates the pool, whatever its workers are doing.
CollectError ==
  /\ mainpc = "pool"
  /\ outqueue # <<>>
  /\ Head(outqueue).exc # ""
  /\ mainpc' = "failed"
  /\ task' = [i \in DOMAIN task |->
                IF task[i].pc \in RunningPcs
                THEN [task[i] EXCEPT !.pc = "killed", !.at = task[i].pc]
                ELSE task[i]]
  /\ outqueue' = <<>>
  /\ UNCHANGED <<dirvars, disk, run, filenames, nextTask, results, fnvars>>

\* f"  {ln},\n" for every line of one task.
ManifestLines(lines) ==
  Concat([k \in DOMAIN lines |-> <<Ch(" "), Ch(" ")>> \o lines[k] \o <<Ch(","), Ch("\n")>>])

\* A variant whose loop starts at the second task's lines.
ManifestText_skipping(res) ==
  LET body == <<Ch("["), Ch("\n")>>
                \o Concat([k \in DOMAIN Tail(res) |-> ManifestLines(Tail(res)[k])])
  IN WriteAt(body, Len(body) - 2, <<Ch("\n"), Ch("]")>>)

\* lines 193-199: the text of the file when it is closed.  The file is
\* opened empty, "[\n" and the lines are written, the position moves back by
\* two bytes (never into a record: the last two bytes written are "[\n" or
\* ",\n") and "\n]" is written there.
ManifestText(res) ==
  LET body == <<Ch("["), Ch("\n")>> \o Concat([k \in DOMAIN res |-> ManifestLines(res[k])])
  IN WriteAt(body, Len(body) - 2, <<Ch("\n"), Ch("]")>>)

\* A variant that writes the manifest as soon as one task's lines are in.
WriteManifest_early ==
  /\ mainpc = "pool"
  /\ results # <<>>
  /\ disk' = Put(disk, OutFile, ManifestText(results))
  /\ mainpc' = "done"
  /\ UNCHANGED <<dirvars, run, filenames, nextTask, task, outqueue, results, fnvars>>

\* lines 192-199, once every task's lines are in.
WriteManifest ==
  /\ mainpc = "pool"
  /\ Len(results) = Len(filenames)
  /\ disk' = Put(disk, OutFile, ManifestText(results))
  /\ mainpc' = "done"
  /\ UNCHANGED <<dirvars, run, filenames, nextTask, task, outqueue, results, fnvars>>

(***************************************************************************)
(* Specifications                                                          *)
(***************************************************************************)
InitRun ==
  /\ disk = <<>>
  /\ run = 0
  /\ mainpc = "idle"
  /\ filenames = <<>>
  /\ nextTask = 1
  /\ task = <<>>
  /\ outqueue = <<>>
  /\ results = <<>>
  /\ fin = NoArgs
  /\ fout = NoCall

\* main over a directory of up to three archives.
Init ==
  /\ \E S \in SUBSET TarFiles : tars \in [S -> Tars]
  /\ num_proc \in {1, 2, NumProcDefault}
  /\ InitRun

\* main over a directory of one archive, of any entries.
InitScan ==
  /\ tars \in [{TarFile(TarNames[1])} -> SeqsUpTo(Members, MaxEntries)]
  /\ num_proc = NumProcDefault
  /\ InitRun

Next ==
  \/ Main
  \/ Dequeue
  \/ \E i \in DOMAIN task : Skip(i)
  \/ \E i \in DOMAIN task : Open(i)
  \/ \E i \in DOMAIN task : ScanEntry(i)
  \/ \E i \in DOMAIN task : OpenDoc(i)
  \/ \E i \in DOMAIN task : WriteDoc(i)
  \/ \E i \in DOMAIN task : ReturnLines(i)
  \/ Collect
  \/ CollectError
  \/ WriteManifest

Spec == Init /\ [][Next]_vars
SpecScan == InitScan /\ [][Next]_vars

(***************************************************************************)
(* The per-image functions, each called once on arguments drawn from the   *)
(* sets below.                                                             *)
(***************************************************************************)
\* The values of the copyright tag and of the artist tag.
CopyrightValues ==
  {Str(v) : v \in {"", " A ", "AB", " AB ", "[None]", "A[None]", "[None", "LDQ-A-RDQ"}}
ArtistValues == {Str(v) : v \in {"A", "CD", "[None]", " AB "}}

\* What img.getexif() gives: the tags present with their values.
Exifs ==
  {<<>>}
  \cup {Put(<<>>, TagCopyright, c) : c \in CopyrightValues}
  \cup {Put(<<>>, TagArtist, a) : a \in ArtistValues}
  \cup {Put(Put(<<>>, TagCopyright, c), TagArtist, a) :
          c \in CopyrightValues, a \in ArtistValues}

Images ==
  {[format |-> f, exifread |-> "ok", exif |-> e, pixels |-> Pixels("data")] :
     f \in Formats, e \in Exifs}
  \cup {[format |-> f, exifread |-> "SyntaxError", exif |-> <<>>, pixels |-> Pixels("data")] :
          f \in Formats}

Decodes == {"ok", "UnidentifiedImageError", "OSError"}
Titles == {"", "Sunset"}
Timestamps == {None, Some(0), Some(7)}

InitImage ==
  /\ fin \in [img : Images, decode : Decodes, title : Titles, url : Urls,
               timestamp : Timestamps, now : Clock]
  /\ fout = NoCall
  /\ tars = <<>>
  /\ num_proc = NumProcDefault
  /\ disk = <<>>
  /\ run = 0
  /\ mainpc = "idle"
  /\ filenames = <<>>
  /\ nextTask = 1
  /\ task = <<>>
  /\ outqueue = <<>>
  /\ results = <<>>

\* The bytes process_image is given: they decode to fin.img, or do not decode.
FinData == [bytes |-> "data", size |-> 200, decode |-> fin.decode, img |-> fin.img]

pipevars == <<tars, disk, num_proc, run, mainpc, filenames, nextTask, task, outqueue, results>>

CallGetMimeType ==
  /\ fout = NoCall
  /\ fout' = [name |-> "get_mime_type", res |-> get_mime_type(fin.img)]
  /\ UNCHANGED <<fin, pipevars>>

CallGetCopyright ==
  /\ fout = NoCall
  /\ fout' = [name |-> "get_copyright", res |-> get_copyright(fin.img)]
  /\ UNCHANGED <<fin, pipevars>>

\* PIL.Image.open gives every image it decodes a format.
CallProcessImage ==
  /\ fout = NoCall
  /\ fin.decode = "ok" => fin.img.format # None
  /\ fout' = [name |-> "process_image",
              res |-> process_image(FinData, fin.title, fin.url, fin.timestamp, fin.now)]
  /\ UNCHANGED <<fin, pipevars>>

NextImage == CallGetMimeType \/ CallGetCopyright \/ CallProcessImage

SpecImage == InitImage /\ [][NextImage]_vars

(***************************************************************************)
(* Claims                                                                  *)
(***************************************************************************)
\* The entries of task i's archive, the entry its next pass reads, and
\* whether the step is a pass of its loop.
Entries(i) == tars[filenames[i]]
NextEntry(i) == Entries(i)[task[i].pos + 1]
IsPayload(m) == EndsWith(Lower(m.name), "jpg")
IsSidecar(m) == EndsWith(Lower(m.name), "json")
KeyOf(m) == PairingKey(Lower(m.name))
Pass(i) ==
  /\ mainpc = "pool" /\ mainpc' = "pool"
  /\ task[i].pc = "scan"
  /\ task'[i].pos = task[i].pos + 1

\* What a task's exception adds to the result queue.
Raises(i, e) ==
  /\ task'[i].pc = "raised"
  /\ task'[i].exc = e
  /\ outqueue' = Append(outqueue, Result(i, e, <<>>))

\* C1: process_tar on an archive whose output file exists reads no entry,
\* calls process_image zero times, returns the empty list and leaves the
\* output file (and every other file) as it is.
C1_SkipDoesNothing ==
  [][\A i \in DOMAIN task :
       (/\ mainpc = "pool" /\ mainpc' = "pool"
        /\ task[i].pc = "start"
        /\ task'[i] # task[i]
        /\ DocPath(filenames[i]) \in DOMAIN disk)
       => /\ task'[i].pc = "done"
          /\ task'[i].ret = Some(<<>>)
          /\ task'[i].pos = 0
          /\ task'[i].ncalls = 0
          /\ task'[i].wrote = 0
          /\ outqueue' = Append(outqueue, Result(i, "", <<>>))
          /\ disk' = disk]_vars

\* C1's case: the second run of main skips an archive whose first scan
\* wrote a record.
C1_Witness ==
  /\ run = 2
  /\ \E i \in DOMAIN task :
       /\ task[i].pc = "done"
       /\ task[i].ret = Some(<<>>)
       /\ task[i].pos = 0
       /\ Objects(disk[DocPath(filenames[i])]) # <<>>

\* C2: a pass over a sidecar ends in the pairing error exactly when its key
\* is not buffered; it does when no earlier entry of the archive is a payload
\* with that key, and it does not when the entry just before is that payload.
C2_PairingOrder ==
  [][\A i \in DOMAIN task :
       Pass(i) =>
         LET m == NextEntry(i)
             p == task[i].pos + 1
         IN /\ Raises(i, "AssertionError")
                 <=> (IsSidecar(m) /\ KeyOf(m) \notin DOMAIN task[i].cache)
            /\ (/\ IsSidecar(m)
                /\ \A q \in 1..(p - 1) :
                     ~(IsPayload(Entries(i)[q]) /\ KeyOf(Entries(i)[q]) = KeyOf(m)))
               => Raises(i, "AssertionError")
            /\ (/\ IsSidecar(m)
                /\ p > 1
                /\ IsPayload(Entries(i)[p - 1])
                /\ KeyOf(Entries(i)[p - 1]) = KeyOf(m))
               => task'[i].exc # "AssertionError"]_vars

\* C2's case: the sidecar comes first and its payload later, and the scan
\* ended in the pairing error at the sidecar.
C2_Witness ==
  \E i \in DOMAIN task :
    /\ task[i].pc = "raised"
    /\ task[i].exc = "AssertionError"
    /\ task[i].pos = 1
    /\ IsSidecar(Entries(i)[1])
    /\ \E q \in 2..Len(Entries(i)) :
         IsPayload(Entries(i)[q]) /\ KeyOf(Entries(i)[q]) = KeyOf(Entries(i)[1])

\* The number of times d occurs in the sequence s.
RECURSIVE Count(_, _)
Count(d, s) ==
  IF s = <<>> THEN 0 ELSE (IF Head(s) = d THEN 1 ELSE 0) + Count(d, Tail(s))

Range(s) == {s[k] : k \in DOMAIN s}

\* The sequences hold the same elements, each as many times.
SameBag(a, b) ==
  /\ Len(a) = Len(b)
  /\ \A d \in Range(a) \cup Range(b) : Count(d, a) = Count(d, b)

\* The manifest file's text, and the records of archive f's output file.
Manifest == disk[OutFile]
DocRecords(f) == Objects(disk[DocPath(f)])

\* C3: every run of main that completes leaves a manifest that is a
\* syntactically valid JSON array.
C3_ManifestIsJsonArray ==
  mainpc = "done" => IsJsonArray(Manifest)

\* C4: after a completed run of main the manifest's objects are the records
\* of the output files of all the archives of the directory.
C4_ManifestCoversEveryArchive ==
  mainpc = "done" =>
    SameBag(Objects(Manifest),
            Concat([k \in DOMAIN filenames |-> DocRecords(filenames[k])]))

\* The lines process_tar gives for an archive scanned on its own: the loop's
\* passes in order, from empty locals.
RECURSIVE ScanAlone(_, _, _)
ScanAlone(t, members, now) ==
  IF t.pos = Len(members) THEN t.lines
  ELSE LET r == LoopBody(t, members[t.pos + 1], now)
       IN IF r.exc # "" THEN <<>> ELSE ScanAlone(r.t, members, now)
OwnRecords(f) ==
  Objects(Concat(ScanAlone(PendingTask, tars[f], CHOOSE now \in Clock : TRUE)))

RECURSIVE Sum(_)
Sum(s) == IF s = <<>> THEN 0 ELSE Head(s) + Sum(Tail(s))

\* C5: a first run of main that completes leaves a manifest holding as many
\* objects as the archives have records together, and each archive's output
\* file holds that archive's own records, one object per line.
C5_FirstRunAggregates ==
  (mainpc = "done" /\ run = 1) =>
    /\ Len(Objects(Manifest))
         = Sum([k \in DOMAIN filenames |-> Len(OwnRecords(filenames[k]))])
    /\ \A f \in DOMAIN tars :
         /\ f \in Range(filenames)
         /\ DocPath(f) \in DOMAIN disk
         /\ IsJsonLines(disk[DocPath(f)])
         /\ DocRecords(f) = OwnRecords(f)
    /\ \A f \in DOMAIN tars :
         OwnRecords(f) = <<>> => disk[DocPath(f)] = <<>>

\* C5's case: three archives with N > 0, 0 and M > 0 records, whose tasks
\* completed in another order than they were handed out.
C5_Witness ==
  /\ mainpc = "done" /\ run = 1
  /\ Len(filenames) = 3
  /\ Len(OwnRecords(filenames[1])) > 0
  /\ disk[DocPath(filenames[2])] = <<>>
  /\ Len(OwnRecords(filenames[3])) > 0
  /\ Len(Objects(Manifest)) = Len(OwnRecords(filenames[1])) + Len(OwnRecords(filenames[3]))
  /\ results[1] = task[3].ret.v
  /\ results[1] # task[1].ret.v

\* A pass over a sidecar whose payload is buffered and whose url is there:
\* the pass that calls process_image.
CallingPass(i) ==
  /\ Pass(i)
  /\ IsSidecar(NextEntry(i))
  /\ KeyOf(NextEntry(i)) \in DOMAIN task[i].cache
  /\ "url" \in DOMAIN NextEntry(i).data
PassData(i) == task[i].cache[KeyOf(NextEntry(i))]

\* C6: process_image on a payload that does not decode returns the empty
\* result for every title, URL and timestamp, raises nothing and makes no
\* identifier call; process_tar adds no line for the pair and goes on.
C6_UndecodableIsSkipped ==
  [][\A i \in DOMAIN task :
       (CallingPass(i) /\ PassData(i).decode # "ok") =>
         /\ \A dec \in Decodes \ {"ok"}, title \in Titles, url \in Urls,
                timestamp \in Timestamps, now \in Clock :
              process_image([PassData(i) EXCEPT !.decode = dec], title, url, timestamp, now)
                = [exc |-> "", val |-> EmptyDoc, idcalls |-> 0]
         /\ task'[i].pc = "scan"
         /\ task'[i].exc = ""
         /\ task'[i].ncalls = task[i].ncalls + 1
         /\ task'[i].lines = task[i].lines
         /\ outqueue' = outqueue]_vars

\* C6's case: the pair of an undecodable payload, with no caption, was
\* passed with no line, and the pair after it gave the scan's only line.
C6_Witness ==
  \E i \in DOMAIN task :
    /\ task[i].pc = "done"
    /\ task[i].pos = 4
    /\ task[i].ncalls = 2
    /\ Len(task[i].ret.v) = 1
    /\ IsPayload(Entries(i)[1]) /\ Entries(i)[1].data.decode # "ok"
    /\ IsSidecar(Entries(i)[2]) /\ "caption" \notin DOMAIN Entries(i)[2].data
    /\ IsPayload(Entries(i)[3])
    /\ IsSidecar(Entries(i)[4])

\* C7: a sidecar without caption is no error: with a payload that decodes
\* the pass adds one line, whose meta component is that of the empty title,
\* and the scan goes on.
C7_MissingCaptionIsNoError ==
  [][\A i \in DOMAIN task :
       (/\ CallingPass(i)
        /\ "caption" \notin DOMAIN NextEntry(i).data
        /\ PassData(i).decode = "ok") =>
         /\ task'[i].pc = "scan"
         /\ task'[i].exc = ""
         /\ Len(task'[i].lines) = Len(task[i].lines) + 1
         /\ Objects(task'[i].lines[Len(task'[i].lines)])[1].iscc[1] = MetaId("")]_vars

\* C8: a sidecar without url ends the scan of its archive: the error leaves
\* process_tar whether or not the payload decodes, with process_image not
\* called and nothing written, and no later entry is read.
C8_MissingUrlIsFatal ==
  [][\A i \in DOMAIN task :
       /\ (/\ Pass(i)
           /\ IsSidecar(NextEntry(i))
           /\ KeyOf(NextEntry(i)) \in DOMAIN task[i].cache
           /\ "url" \notin DOMAIN NextEntry(i).data) =>
            /\ Raises(i, "KeyError")
            /\ task'[i].ncalls = task[i].ncalls
            /\ task'[i].lines = task[i].lines
            /\ disk' = disk
       /\ (task[i].pc = "raised" /\ run' = run) =>
            /\ task'[i] = task[i]
            /\ DocPath(filenames[i]) \notin DOMAIN disk']_vars

\* C8's case: the sidecar without url was paired with a payload that does
\* not decode, and an entry after it was left unread.
C8_Witness ==
  \E i \in DOMAIN task :
    /\ task[i].pc = "raised"
    /\ task[i].exc = "KeyError"
    /\ task[i].pos = 2
    /\ Entries(i)[1].data.decode # "ok"
    /\ Len(Entries(i)) = 3
    /\ mainpc = "failed"
    /\ DocPath(filenames[i]) \notin DOMAIN disk

\* The lower-case spelling of a format name.
LowerFormat(f) ==
  CASE f = "BMP" -> "bmp"
    [] f = "TIFF" -> "tiff"
    [] OTHER -> f

\* C9: get_mime_type never raises; it maps JPEG, PNG, WEBP and GIF to their
\* image/ types, no format to the sentinel, and every other format F to
\* other/ followed by F in lower case.
C9_MimeTypeTotal ==
  fout.name = "get_mime_type" =>
    /\ fout.res.exc = ""
    /\ fout.res.val =
         (IF fin.img.format = None THEN "!ERROR!"
          ELSE CASE fin.img.format.v = "JPEG" -> "image/jpeg"
                 [] fin.img.format.v = "PNG" -> "image/png"
                 [] fin.img.format.v = "WEBP" -> "image/webp"
                 [] fin.img.format.v = "GIF" -> "image/gif"
                 [] OTHER -> "other/" \o LowerFormat(fin.img.format.v))

\* A tag's value is there and is not rejected: trimmed, it has two
\* characters or more, and it does not contain [None].
Acceptable(exif, tag) ==
  /\ tag \in DOMAIN exif
  /\ Len(Strip(exif[tag])) >= 2
  /\ ~Contains(<<"[", "N", "o", "n", "e", "]">>, exif[tag])

\* C10: get_copyright returns the copyright tag's value, trimmed and
\* repaired, when it is acceptable, else the artist tag's when that is
\* acceptable, else nothing; and nothing when the metadata cannot be read.
C10_CopyrightFirstAccepted ==
  fout.name = "get_copyright" =>
    fout.res =
      (IF fin.img.exifread # "ok" THEN None
       ELSE IF Acceptable(fin.img.exif, 33432)
         THEN Some(FixText(Strip(fin.img.exif[33432])))
       ELSE IF Acceptable(fin.img.exif, 315)
         THEN Some(FixText(Strip(fin.img.exif[315])))
       ELSE None)

\* C10's case: both tags hold acceptable values, which differ, and the
\* copyright tag's came back.
C10_Witness ==
  /\ fout.name = "get_copyright"
  /\ Acceptable(fin.img.exif, 33432)
  /\ Acceptable(fin.img.exif, 315)
  /\ Strip(fin.img.exif[315]) # Strip(fin.img.exif[33432])
  /\ fout.res = Some(Strip(fin.img.exif[33432]))

\* A step that creates the manifest or changes its text.
ManifestTouched ==
  /\ OutFile \in DOMAIN disk'
  /\ OutFile \notin DOMAIN disk \/ disk'[OutFile] # disk[OutFile]

\* C11: main writes the manifest only after the scan task of every archive
\* has completed: no step creates or writes the manifest, or ends main's
\* wait on the pool, while a task is pending or running.
C11_ManifestAfterAllTasks ==
  [][(ManifestTouched \/ (mainpc = "pool" /\ mainpc' = "done")) =>
       /\ DOMAIN task = DOMAIN filenames
       /\ \A i \in DOMAIN task : task[i].pc = "done"
       /\ Len(results) = Len(filenames)
       /\ outqueue = <<>>]_vars

\* C11's case: three archives scanned by one worker, so that two tasks were
\* pending while the first ran, and the manifest written after the third.
C11_Witness ==
  /\ mainpc = "done" /\ run = 1
  /\ num_proc = 1
  /\ Len(filenames) = 3
  /\ \A i \in DOMAIN task : task[i].pc = "done" /\ task[i].wrote = 1
  /\ OutFile \in DOMAIN disk

\* The record of the line a pass has added.
NewRecord(i) == task'[i].lines[Len(task'[i].lines)][1].obj
AddsLine(i) == Len(task'[i].lines) = Len(task[i].lines) + 1

\* C12: every record process_tar emits carries as its timestamp the integer
\* modification time of its sidecar entry, whatever that time is; the clock
\* is read only when process_image is given no timestamp.
C12_TimestampIsMtime ==
  [][\A i \in DOMAIN task :
       (CallingPass(i) /\ AddsLine(i)) =>
         NewRecord(i).timestamp = NextEntry(i).mtime]_vars

\* The lines of a text that ends each line with a newline.
RECURSIVE TextLines(_, _)
TextLines(s, cur) ==
  IF s = <<>> THEN (IF cur = <<>> THEN <<>> ELSE <<cur>>)
  ELSE IF Head(s) = Ch("\n") THEN <<cur>> \o TextLines(Tail(s), <<>>)
  ELSE TextLines(Tail(s), Append(cur, Head(s)))

\* A step that creates the file at path p or changes its text.
Touched(p) ==
  /\ p \in DOMAIN disk'
  /\ p \notin DOMAIN disk \/ disk'[p] # disk[p]

\* C13: an invocation of process_tar that is not skipped and does not fail
\* writes the output file once, after the last entry was scanned and before
\* it returns: no pass of the loop writes anything, the file is touched only
\* by the open and the write that follow the last pass, and at the return
\* the file's lines are the list returned.
C13_WrittenOnceAfterScan ==
  [][\A i \in DOMAIN task :
       LET p == DocPath(filenames[i]) IN
       /\ Pass(i) => disk' = disk
       /\ (mainpc = "pool" /\ Touched(p)) =>
            /\ task[i].pc \in {"scan", "write"}
            /\ task[i].pos = Len(Entries(i))
            /\ task[i].wrote = 0
            /\ task'[i].pc = IF task[i].pc = "scan" THEN "write" ELSE "return"
            /\ task'[i].lines = task[i].lines
            /\ outqueue' = outqueue
       /\ (task[i].pc = "return" /\ task'[i].pc = "done") =>
            /\ task[i].wrote = 1
            /\ task'[i].ret = Some(task[i].lines)
            /\ TextLines(disk[p], <<>>) = task'[i].ret.v
            /\ disk' = disk]_vars

\* C13's case: a scan of two pairs has returned its two lines, and they are
\* the two lines of the output file, written once.
C13_Witness ==
  \E i \in DOMAIN task :
    /\ run = 1
    /\ task[i].pc = "done" /\ task[i].wrote = 1
    /\ task[i].pos = 4
    /\ Len(task[i].ret.v) = 2
    /\ TextLines(disk[DocPath(filenames[i])], <<>>) = task[i].ret.v

\* A scan that ended before the write: by an exception of a pass, or with
\* its worker stopped inside the loop.
Aborted(t) == t.pc = "raised" \/ (t.pc = "killed" /\ t.at = "scan")
NoFileForAborted ==
  \A i \in DOMAIN task :
    Aborted(task[i]) => DocPath(filenames[i]) \notin DOMAIN disk

\* C14: an output file exists only for an archive whose scan ran to its
\* end: the file is created only by a task that has passed the last entry
\* with no error, a scan that ended before the write (pairing error, missing
\* url, any other exception, or its worker stopped) leaves no output file,
\* and process_tar on an archive with no output file does not skip: it
\* starts at the first entry with empty lines and an empty buffer.
C14_NoFileForAbortedScan ==
  [][/\ NoFileForAborted'
     /\ \A i \in DOMAIN task :
          LET p == DocPath(filenames[i]) IN
          /\ (mainpc = "pool" /\ p \notin DOMAIN disk /\ p \in DOMAIN disk') =>
               /\ task[i].pc = "scan"
               /\ task[i].pos = Len(Entries(i))
               /\ task[i].exc = ""
          /\ (mainpc' = "pool" /\ task[i].pc = "start" /\ task'[i].pc # "start"
                /\ p \notin DOMAIN disk) =>
               /\ task'[i].pc = "scan"
               /\ task'[i].pos = 0
               /\ task'[i].lines = <<>>
               /\ task'[i].cache = <<>>
               /\ task'[i].ncalls = 0]_vars

\* C14's case: on a second run, the archive whose scan failed in the first
\* run has been scanned again up to the failing entry and has no output
\* file, while an archive whose scan completed in the first run was skipped.
C14_Witness ==
  \E i, j \in DOMAIN task :
    /\ run = 2
    /\ task[i].pc = "raised" /\ task[i].pos >= 1
    /\ DocPath(filenames[i]) \notin DOMAIN disk
    /\ task[j].pc = "done" /\ task[j].pos = 0 /\ task[j].wrote = 0
    /\ Len(DocRecords(filenames[j])) > 0

\* The locals of a scan of members on its own after n passes of the loop, or
\* after the pass that raised if that comes first.
RECURSIVE ScanPrefix(_, _, _, _)
ScanPrefix(t, members, n, now) ==
  IF t.pos = n THEN t
  ELSE LET r == LoopBody(t, members[t.pos + 1], now)
       IN IF r.exc # "" THEN r.t ELSE ScanPrefix(r.t, members, n, now)

\* Every task that has opened its archive holds the buffer, the lines and
\* the call count of a scan of that archive on its own.
ScansAsAlone ==
  \A i \in DOMAIN task :
    (task[i].pc \in {"scan", "write", "return", "raised"}
       \/ (task[i].pc = "killed" /\ task[i].at # "start")) =>
      LET alone == ScanPrefix(PendingTask, Entries(i), task[i].pos,
                              CHOOSE now \in Clock : TRUE)
      IN /\ task[i].cache = alone.cache
         /\ task[i].lines = alone.lines
         /\ task[i].ncalls = alone.ncalls

\* C15: in every interleaving of the workers each scan uses its own buffer
\* and lines and writes its own output file only: the locals of every task
\* are those of a scan of its archive on its own, so no payload is paired
\* with another archive's sidecar; a step that touches an archive's output
\* file is a step of that archive's task, it touches no other archive's
\* file and changes no other task; and the list a task returns is the list
\* of its archive scanned on its own.
C15_ScansAreIndependent ==
  /\ []ScansAsAlone
  /\ [][\A i \in DOMAIN task :
          /\ (mainpc = "pool" /\ Touched(DocPath(filenames[i]))) =>
               /\ task[i].pc \in {"scan", "write"}
               /\ \A j \in DOMAIN task \ {i} :
                    /\ task'[j] = task[j]
                    /\ ~Touched(DocPath(filenames[j]))
               /\ \A p \in DOMAIN disk :
                    /\ p \in DOMAIN disk'
                    /\ p # DocPath(filenames[i]) => disk'[p] = disk[p]
          /\ (task[i].pc = "return" /\ task'[i].pc = "done") =>
               task'[i].ret.v
                 = ScanAlone(PendingTask, Entries(i), CHOOSE now \in Clock : TRUE)]_vars

\* C15's case: two workers are inside the scans of two archives at once, each
\* with a payload buffered under the same key, and a third task has returned.
C15_Witness ==
  \E i, j, k \in DOMAIN task :
    /\ i # j
    /\ task[i].pc = "scan" /\ task[j].pc = "scan"
    /\ <<"a">> \in DOMAIN task[i].cache
    /\ <<"a">> \in DOMAIN task[j].cache
    /\ task[i].cache # task[j].cache
    /\ task[k].pc = "done" /\ task[k].wrote = 1

\* C16: the lines of an archive's returned list and output file are in the
\* order of the sidecar entries of the pairs that were processed: a pass
\* leaves the lines as they are or adds, after all of them, the record of the
\* sidecar it is at and of the payload buffered for it; the pair of a payload
\* that does not decode adds nothing and the scan goes on; the pair of one
\* that does, if the scan goes on, adds its line; and the list returned and
\* the file's lines are the lines in that order.
C16_LinesInSidecarOrder ==
  [][\A i \in DOMAIN task :
       /\ Pass(i) =>
            \/ task'[i].lines = task[i].lines
            \/ /\ AddsLine(i)
               /\ SubSeq(task'[i].lines, 1, Len(task[i].lines)) = task[i].lines
               /\ CallingPass(i)
               /\ NewRecord(i).domain = Netloc(NextEntry(i).data.url)
               /\ NewRecord(i).bytes = PassData(i).size
               /\ NewRecord(i).checksum = Checksum(PassData(i))
       /\ (CallingPass(i) /\ PassData(i).decode # "ok") =>
            /\ task'[i].lines = task[i].lines
            /\ task'[i].pc = "scan"
       /\ (CallingPass(i) /\ PassData(i).decode = "ok" /\ task'[i].pc = "scan") =>
            AddsLine(i)
       /\ (task[i].pc = "return" /\ task'[i].pc = "done") =>
            /\ task'[i].ret.v = task[i].lines
            /\ TextLines(disk[DocPath(filenames[i])], <<>>) = task[i].lines]_vars

\* C16's case: an archive of three pairs whose second payload does not
\* decode was scanned to the end; the first and the third pair gave the
\* two lines, in that order.
C16_Witness ==
  \E i \in DOMAIN task :
    /\ task[i].pc = "done"
    /\ Entries(i) = TarThree
    /\ task[i].pos = 6 /\ task[i].ncalls = 3
    /\ Len(task[i].ret.v) = 2
    /\ task[i].ret.v[1][1].obj.bytes = TarThree[1].data.size
    /\ task[i].ret.v[1][1].obj.domain = Netloc(TarThree[2].data.url)
    /\ task[i].ret.v[2][1].obj.bytes = TarThree[5].data.size
    /\ task[i].ret.v[2][1].obj.domain = Netloc(TarThree[6].data.url)
    /\ TextLines(disk[DocPath(filenames[i])], <<>>) = task[i].ret.v

\* Of the first n entries, the positions of the payloads that no later
\* sidecar with their key (among those n) has followed.
Unpaired(members, n) ==
  {q \in 1..n :
     /\ IsPayload(members[q])
     /\ ~\E q2 \in (q + 1)..n :
          IsSidecar(members[q2]) /\ KeyOf(members[q2]) = KeyOf(members[q])}
PayloadsSeen(members, n) == {q \in 1..n : IsPayload(members[q])}

\* The buffer of a task inside or after its loop holds the keys of the
\* unpaired payloads seen, and no more pairs were processed than payloads
\* were seen.
BufferExact ==
  \A i \in DOMAIN task :
    task[i].pc \in {"scan", "write", "return", "raised"} =>
      /\ DOMAIN task[i].cache
           = {KeyOf(Entries(i)[q]) : q \in Unpaired(Entries(i), task[i].pos)}
      /\ task[i].ncalls <= Cardinality(PayloadsSeen(Entries(i), task[i].pos))

\* C17: the buffer is empty when a scan starts and holds at every point of
\* the scan the keys of the payloads seen whose sidecar has not been
\* processed; the pass of a sidecar takes its payload out of the buffer, so
\* a buffered payload is processed at most once, and a sidecar that comes
\* after another one with its key, with no payload of that key between
\* them, fails the scan with the pairing error.
C17_BufferHoldsUnpairedPayloads ==
  /\ []BufferExact
  /\ [][\A i \in DOMAIN task :
          /\ (task[i].pc = "start" /\ task'[i].pc = "scan") => task'[i].cache = <<>>
          /\ (Pass(i) /\ IsSidecar(NextEntry(i))) =>
               LET key == KeyOf(NextEntry(i)) IN
               /\ key \notin DOMAIN task'[i].cache
               /\ key \in DOMAIN task[i].cache =>
                    \A k \in DOMAIN task[i].cache \ {key} :
                      /\ k \in DOMAIN task'[i].cache
                      /\ task'[i].cache[k] = task[i].cache[k]
               /\ (\E q \in 1..task[i].pos :
                     /\ IsSidecar(Entries(i)[q])
                     /\ KeyOf(Entries(i)[q]) = key
                     /\ \A q2 \in (q + 1)..task[i].pos :
                          ~(IsPayload(Entries(i)[q2]) /\ KeyOf(Entries(i)[q2]) = key)) =>
                    Raises(i, "AssertionError")]_vars

\* C17's case: a payload, its sidecar and a second sidecar with the same
\* key: the first pair gave a line and emptied the buffer, the second
\* sidecar raised the pairing error.
C17_Witness ==
  \E i \in DOMAIN task :
    /\ task[i].pc = "raised" /\ task[i].exc = "AssertionError"
    /\ task[i].pos = 3
    /\ IsPayload(Entries(i)[1])
    /\ IsSidecar(Entries(i)[2]) /\ IsSidecar(Entries(i)[3])
    /\ KeyOf(Entries(i)[2]) = KeyOf(Entries(i)[1])
    /\ KeyOf(Entries(i)[3]) = KeyOf(Entries(i)[1])
    /\ task[i].ncalls = 1 /\ Len(task[i].lines) = 1
    /\ task[i].cache = <<>>

\* A run in which a task raised does not complete, and a first run that
\* failed has left no manifest.
NoManifestOnFailure ==
  /\ (\E i \in DOMAIN task : task[i].pc = "raised") => mainpc # "done"
  /\ (mainpc = "failed" /\ run = 1) => OutFile \notin DOMAIN disk

\* The step in which main takes the outcome at the head of the result queue.
TakesOutcome ==
  /\ mainpc = "pool"
  /\ outqueue # <<>>
  /\ outqueue' = <<>> \/ Head(outqueue') # Head(outqueue)

\* C18: when a task raises, main fails with that task's error and neither
\* creates nor writes the manifest, whatever the other tasks have done: the
\* step that takes a task's error ends main as failed and changes no file;
\* from the moment a task has raised no step touches the manifest or
\* completes the run; and after the failure no file changes, so the output
\* files of the tasks that completed stay as they were written.
C18_FailureWritesNoManifest ==
  /\ []NoManifestOnFailure
  /\ [][/\ (TakesOutcome /\ Head(outqueue).exc # "") =>
             /\ mainpc' = "failed"
             /\ task[Head(outqueue).idx].pc = "raised"
             /\ task[Head(outqueue).idx].exc = Head(outqueue).exc
             /\ results' = results
             /\ disk' = disk
        /\ (mainpc = "pool" /\ mainpc' = "failed") =>
             /\ Head(outqueue).exc # ""
             /\ disk' = disk
        /\ (mainpc = "pool" /\ \E i \in DOMAIN task : task[i].pc = "raised") =>
             /\ ~ManifestTouched
             /\ mainpc' # "done"
        /\ (mainpc = "failed" /\ mainpc' = "failed") => disk' = disk]_vars

\* C18's case: of three archives one task raised, one had returned with its
\* output file written and one was stopped with the pool; main failed with
\* the error, and there is the completed task's file and no manifest.
C18_Witness ==
  \E i, j, k \in DOMAIN task :
    /\ mainpc = "failed" /\ run = 1
    /\ task[i].pc = "raised" /\ task[i].exc = "AssertionError"
    /\ task[j].pc = "done" /\ task[j].wrote = 1
    /\ Len(DocRecords(filenames[j])) > 0
    /\ task[k].pc = "killed"
    /\ OutFile \notin DOMAIN disk

SidecarsSeen(members, n) == {q \in 1..n : IsSidecar(members[q])}

\* The unpaired payloads seen are in the buffer of a task that has its
\* locals, and its lines and calls are no more than the sidecars seen; a
\* task that scanned and returned gave no more lines than its archive has
\* sidecars.
UnpairedStayBuffered ==
  \A i \in DOMAIN task :
    /\ task[i].pc \in {"scan", "write", "return"} =>
         /\ \A q \in Unpaired(Entries(i), task[i].pos) :
              KeyOf(Entries(i)[q]) \in DOMAIN task[i].cache
         /\ Len(task[i].lines) <= Cardinality(SidecarsSeen(Entries(i), task[i].pos))
         /\ task[i].ncalls <= Cardinality(SidecarsSeen(Entries(i), task[i].pos))
    /\ (task[i].pc = "done" /\ task[i].wrote = 1) =>
         /\ Len(task[i].ret.v) <= Cardinality(SidecarsSeen(Entries(i), Len(Entries(i))))
         /\ Len(DocRecords(filenames[i])) = Len(task[i].ret.v)

\* C19: a payload that no sidecar with its key follows gives no record and
\* no error: the pass of a payload buffers it and changes neither the lines
\* nor the call count, and raises nothing; the payload stays in the buffer
\* to the end of the scan; the scan ends as any other, with the open and the
\* write of the output file; and the records are no more than the sidecars.
C19_UnpairedPayloadIsSilent ==
  /\ []UnpairedStayBuffered
  /\ [][\A i \in DOMAIN task :
          /\ (Pass(i) /\ IsPayload(NextEntry(i))) =>
               /\ task'[i].pc = "scan"
               /\ task'[i].exc = ""
               /\ task'[i].lines = task[i].lines
               /\ task'[i].ncalls = task[i].ncalls
               /\ KeyOf(NextEntry(i)) \in DOMAIN task'[i].cache
               /\ outqueue' = outqueue
               /\ disk' = disk
          /\ (mainpc' = "pool" /\ task[i].pc = "scan" /\ task[i].pos = Len(Entries(i))
                /\ task'[i] # task[i]) =>
               /\ task'[i].pc = "write"
               /\ DocPath(filenames[i]) \in DOMAIN disk'
          /\ (task[i].pc = "write" /\ task'[i].pc = "return") =>
               /\ disk'[DocPath(filenames[i])] = DocText(task[i].lines)
               /\ task'[i].cache = task[i].cache]_vars

\* C19's case: a pair followed by a payload with another key and no
\* sidecar: the scan has written the pair's one record, and the unpaired
\* payload is still in the buffer as process_tar is about to return.
C19_Witness ==
  \E i \in DOMAIN task :
    /\ task[i].pc = "return" /\ task[i].wrote = 1
    /\ task[i].pos = 3
    /\ Unpaired(Entries(i), 3) = {3}
    /\ DOMAIN task[i].cache = {KeyOf(Entries(i)[3])}
    /\ Len(task[i].lines) = 1
    /\ Len(DocRecords(filenames[i])) = 1

\* The key as the claim words it: the lower-cased name less its last two
\* segments, or less its last one when it has two.
KeyByClaim(name) ==
  LET n == Lower(name)
  IN SubSeq(n, 1, Len(n) - (IF Len(n) >= 3 THEN 2 ELSE 1))

\* Of the first n entries, the positions of the payloads with this key that
\* no sidecar with the key has followed, and the last of them.
Waiting(members, n, key) ==
  {q \in 1..n :
     /\ IsPayload(members[q])
     /\ KeyByClaim(members[q].name) = key
     /\ ~\E q2 \in (q + 1)..n :
          IsSidecar(members[q2]) /\ KeyByClaim(members[q2].name) = key}
Latest(S) == CHOOSE q \in S : \A q2 \in S : q2 <= q

\* Under every key of the buffer are the bytes of the last payload seen with
\* that key.
BufferHoldsLatest ==
  \A i \in DOMAIN task :
    task[i].pc \in {"scan", "write", "return"} =>
      \A k \in DOMAIN task[i].cache :
        LET S == Waiting(Entries(i), task[i].pos, k)
        IN S # {} /\ task[i].cache[k] = Entries(i)[Latest(S)].data

\* C20: the pairing key of an entry is its lower-cased name less its last
\* one or two dot-separated segments.  Of two payloads with one key that
\* come before a sidecar the later takes the earlier's place in the buffer:
\* the sidecar's pass processes the later one's bytes and adds at most one
\* line, which is that payload's record, and the passes of the payloads add
\* no line and raise nothing; with no payload waiting under its key the
\* sidecar's pass is the pairing error.
C20_LaterPayloadReplacesEarlier ==
  /\ []BufferHoldsLatest
  /\ [][\A i \in DOMAIN task :
          /\ (Pass(i) /\ IsSidecar(NextEntry(i))) =>
               LET S == Waiting(Entries(i), task[i].pos, KeyByClaim(NextEntry(i).name))
               IN /\ S = {} => Raises(i, "AssertionError")
                  /\ S # {} =>
                       /\ task'[i].exc # "AssertionError"
                       /\ Len(task'[i].lines) <= Len(task[i].lines) + 1
                       /\ "url" \in DOMAIN NextEntry(i).data =>
                            task'[i].ncalls = task[i].ncalls + 1
                       /\ AddsLine(i) =>
                            /\ NewRecord(i).bytes = Entries(i)[Latest(S)].data.size
                            /\ NewRecord(i).checksum = Checksum(Entries(i)[Latest(S)].data)
                            /\ NewRecord(i).iscc[3] = DataId(Entries(i)[Latest(S)].data)
                       /\ Waiting(Entries(i), task[i].pos + 1, KeyByClaim(NextEntry(i).name)) = {}
          /\ (Pass(i) /\ IsPayload(NextEntry(i))) =>
               /\ task'[i].lines = task[i].lines
               /\ task'[i].pc = "scan"
               /\ task'[i].cache[KeyByClaim(NextEntry(i).name)] = NextEntry(i).data]_vars

\* C20's case: a.jpg, then A.x.JPG with other bytes, then a.json: the three
\* names have the key a, and the scan returned one record, that of the
\* bytes of A.x.JPG.
C20_Witness ==
  \E i \in DOMAIN task :
    /\ task[i].pc = "done" /\ task[i].wrote = 1
    /\ Len(Entries(i)) = 3
    /\ Entries(i)[1].name = <<"a", "jpg">>
    /\ Entries(i)[2].name = <<"A", "x", "JPG">>
    /\ Entries(i)[3].name = <<"a", "json">>
    /\ Entries(i)[1].data.decode = "ok"
    /\ Entries(i)[1].data # Entries(i)[2].data
    /\ task[i].ncalls = 1
    /\ Len(task[i].ret.v) = 1
    /\ task[i].ret.v[1][1].obj.bytes = Entries(i)[2].data.size
    /\ task[i].ret.v[1][1].obj.iscc[3] = DataId(Entries(i)[2].data)

====
